---- MODULE Spec2Model ----
(***************************************************************************)
(* spotlight_save: the save stage (save_images / save_image) and the       *)
(* archive stage (archive_images) of src/src/lib.rs, driven by run and     *)
(* main, over a model of the source directory and of the target directory. *)
(*                                                                         *)
(* Time is counted in ticks of half a day; a calendar date is a day number *)
(* and a year has 365 days.  A path is the sequence of its components      *)
(* below config.target: <<"a.jpg">> is target/a.jpg and <<"1971","a.jpg">> *)
(* is target/1971/a.jpg.                                                   *)
(***************************************************************************)
EXTENDS Integers, Sequences, FiniteSets, TLC

VARIABLES
    src,        \* the Spotlight asset directory: file name -> entry (never written)
    plat,       \* what the platform's fs::copy and file metadata do
    now,        \* the clock, in ticks
    ticks,      \* how often the clock was advanced
    runs,       \* how many times the program was started
    pc,         \* "idle" (no process), "save" (in save_images), "archive" (in archive_images)
    archive,    \* config.archive of the running process
    srcTodo,    \* names the read_dir iterator of save_images has not yielded yet
    count,      \* save_images' count, kept until the process ends
    tgtTodo,    \* paths the read_dir iterator of archive_images has not yielded yet
    timeline,   \* archive_images' local timeline (a date)
    tfs,        \* the target directory tree: path -> entry
    tfs0,       \* tfs as it was when the stage in progress (or last run) started
    log,        \* the I/O failures met by the current process: records [op, name]
    err,        \* the error run returned to main: NoErr or a record [op, name]
    exitCode,   \* the exit code of the last process, NoExit before the first one ends
    prevSave    \* how the last save stage ended with no archive stage since: "none", "err", "ok", "clean"

vars == <<src, plat, now, ticks, runs, pc, archive, srcTodo, count, tgtTodo,
          timeline, tfs, tfs0, log, err, exitCode, prevSave>>

\* ------------------------------------------------------------------ bounds

MaxRuns == 2
MaxTicks == 2
TicksPerDay == 2

\* Duration::days(365)
ArchiveDays == 365

NoErr == [op |-> "none", name |-> ""]
NoExit == -1
NoTime == -1

\* ------------------------------------------------------------- the source

SrcNames == {"a", "b"}

Jpeg1 == <<255>>
Png1 == <<137>>
Junk1 == <<0>>

Img(bytes, decodes, w, h) ==
    [kind |-> "file", readable |-> TRUE, bytes |-> bytes, decodes |-> decodes,
     width |-> w, height |-> h, modified |-> 0]

\* the smallest image that is kept
Smallest == Img(Jpeg1, TRUE, 800, 600)

\* The kinds of entry the asset directory is drawn from.
SrcKinds ==
    { Smallest,
      Img(Png1, TRUE, 900, 900),        \* square
      Img(Jpeg1, TRUE, 400, 300),       \* a thumbnail
      Img(Jpeg1, TRUE, 1080, 1920),     \* portrait
      Img(Jpeg1, TRUE, 799, 600),       \* one pixel too narrow
      Img(Png1, TRUE, 1000, 599),       \* one pixel too low
      Img(Jpeg1, FALSE, 0, 0),          \* a JPEG signature and corrupt data
      Img(Junk1, FALSE, 0, 0),          \* no known signature
      [Smallest EXCEPT !.readable = FALSE],
      [Img(Junk1, FALSE, 0, 0) EXCEPT !.kind = "dir"] }

\* The asset directories: "a" is kept, "b" is any kind but a second JPEG.
SrcDirs == {d \in [SrcNames -> SrcKinds] : d["a"] = Smallest /\ d["b"] # Smallest}

\* What fs::copy and fs::Metadata do on the platform the program was built for.
Platforms ==
    { [keepsMtime |-> FALSE, hasModified |-> TRUE, hasCreated |-> TRUE],
      [keepsMtime |-> TRUE, hasModified |-> TRUE, hasCreated |-> TRUE],
      [keepsMtime |-> FALSE, hasModified |-> FALSE, hasCreated |-> TRUE],
      [keepsMtime |-> FALSE, hasModified |-> FALSE, hasCreated |-> FALSE] }

\* ------------------------------------------------------------- paths, files

target == <<>>

\* PathBuf::join
join(dir, name) == Append(dir, name)

\* Path::file_name
file_name(path) == path[Len(path)]

\* Path::exists
exists(fs, path) == path \in DOMAIN fs

\* Path::is_file, when the stat call itself succeeds
is_file(fs, path) == path \in DOMAIN fs /\ fs[path].kind = "file"

Dir == [kind |-> "dir"]

File(bytes, modified, created) ==
    [kind |-> "file", bytes |-> bytes, modified |-> modified, created |-> created]

Put(fs, path, entry) == (path :> entry) @@ fs

Del(fs, path) == [p \in DOMAIN fs \ {path} |-> fs[p]]

\* read_dir, had it descended into the subdirectories
read_dir_recursive(fs, dir) ==
    { p \in DOMAIN fs : Len(p) > Len(dir) /\ SubSeq(p, 1, Len(dir)) = dir }

\* The paths of the entries directly under dir: what read_dir yields.
read_dir(fs, dir) ==
    { p \in DOMAIN fs : Len(p) = Len(dir) + 1 /\ SubSeq(p, 1, Len(dir)) = dir }


Ev(op, name) == [op |-> op, name |-> name]

Prefixes(bytes) == { SubSeq(bytes, 1, k) : k \in 0..(Len(bytes) - 1) }

\* fs::copy(from, to), from being the file `file`: the outcomes.  A copy that
\* succeeds writes all the bytes; the platform decides whether the copy keeps the
\* modification time of the original.  A copy that fails leaves the tree as it was
\* or leaves an incomplete file at `to`.  Writing over a file keeps its creation time.
fs_copy(fs, file, to) ==
    LET created == IF exists(fs, to) THEN fs[to].created ELSE now
        whole == File(file.bytes, IF plat.keepsMtime THEN file.modified ELSE now, created)
    IN  {[ok |-> TRUE, fs |-> Put(fs, to, whole)], [ok |-> FALSE, fs |-> fs]}
        \cup {[ok |-> FALSE, fs |-> Put(fs, to, File(b, now, created))] : b \in Prefixes(file.bytes)}

\* fs::remove_file(path): the outcomes
fs_remove_file(fs, path) == {[ok |-> TRUE, fs |-> Del(fs, path)], [ok |-> FALSE, fs |-> fs]}

\* fs::create_dir(dir): the outcomes
fs_create_dir(fs, dir) == {[ok |-> TRUE, fs |-> Put(fs, dir, Dir)], [ok |-> FALSE, fs |-> fs]}

\* ---------------------------------------------------------------- save_image

\* Reader::with_guessed_format and Reader::format: the format is read off the
\* signature at the head of the content, never off the file name.
guess_format(bytes) ==
    IF Len(bytes) >= 1 /\ bytes[1] = 255 THEN "Jpeg"
    ELSE IF Len(bytes) >= 1 /\ bytes[1] = 137 THEN "Png"
    ELSE "None"

\* ImageFormat::extensions_str
extensions_str(format) ==
    IF format = "Jpeg" THEN <<"jpg", "jpeg">> ELSE <<"png">>

\* the filter, had it left out the test of the height
rejected_no_height(width, height) == width < height \/ width < 800

\* the dimension filter: TRUE when the image is dropped
rejected(width, height) == width < height \/ width < 800 \/ height < 600

\* the name, had it taken the last extension of the format
filename_last(name, format) ==
    name \o "." \o extensions_str(format)[Len(extensions_str(format))]

\* the name of the copy: file name, a dot, the first extension of the format
filename(name, format) == name \o "." \o Head(extensions_str(format))

\* the existence check, had it been left out
never_saved(fs, target_file) == FALSE

\* the existence check, had it looked into the subdirectories too
saved_anywhere(fs, target_file) ==
    \E p \in DOMAIN fs : Len(p) >= 1 /\ p[Len(p)] = target_file[Len(target_file)]

\* the existence check
already_saved(fs, target_file) == exists(fs, target_file)

Skip(fs, io) == {[saved |-> FALSE, fs |-> fs, io |-> io]}

\* save_image(config, filepath) on the tree fs: the outcomes, each the value
\* returned (saved), the tree left and the failure met (io).
save_image(fs, name) ==
    LET f == src[name]
        format == guess_format(f.bytes)
        target_file == join(target, filename(name, format))
    IN  IF ~f.readable THEN Skip(fs, {Ev("open", name)})
        ELSE IF format = "None" THEN Skip(fs, {Ev("sniff", name)})
        ELSE IF ~f.decodes THEN Skip(fs, {Ev("decode", name)})
        ELSE IF rejected(f.width, f.height) THEN Skip(fs, {Ev("filter", name)})
        ELSE IF already_saved(fs, target_file) THEN Skip(fs, {})
        ELSE {[saved |-> c.ok, fs |-> c.fs,
               io |-> IF c.ok THEN {} ELSE {Ev("save.copy", name)}] : c \in fs_copy(fs, f, target_file)}

\* the count, had it counted every file handed to save_image
counted_always(n, saved) == n + 1

\* count += 1 when save_image returned true
counted(n, saved) == IF saved THEN n + 1 ELSE n

\* ------------------------------------------------------------ archive_images

\* DateTime::from(filetime).date(), and Local::today()
date(t) == t \div TicksPerDay

\* the year, had it been formatted with two digits
format_year_short(d) == ToString((1970 + (d \div 365)) % 100)

\* filedate.format("%Y").to_string()
format_year(d) == ToString(1970 + (d \div 365))

\* Metadata::modified and Metadata::created of a file of the target tree
metadata(file) ==
    [modified |-> IF plat.hasModified THEN file.modified ELSE NoTime,
     created |-> IF plat.hasCreated THEN file.created ELSE NoTime]

\* the modification time, else the creation time, else nothing
effective_time(md) ==
    IF md.modified # NoTime THEN md.modified
    ELSE IF md.created # NoTime THEN md.created
    ELSE NoTime

\* the test, had it taken the cutoff date itself as old
is_old_or_cutoff(filedate, cutoff) == filedate <= cutoff

\* filedate < timeline
is_old(filedate, cutoff) == filedate < cutoff

\* an outcome of a turn of the loop of archive_images: the tree left, the error
\* returned (NoErr: the loop goes on) and the failures that were skipped
Done(fs, e, io) == [fs |-> fs, err |-> e, io |-> io]

\* the move, had the result of the copy been dropped: the original is deleted
\* whether or not the copy succeeded
remove_regardless(fs, path, bak_file) ==
    LET name == file_name(path)
    IN  UNION { { IF r.ok THEN Done(r.fs, NoErr, {}) ELSE Done(r.fs, Ev("remove", name), {})
                  : r \in fs_remove_file(c.fs, path) }
                : c \in fs_copy(fs, fs[path], bak_file) }

\* the move, had the result of the removal been dropped
remove_unchecked(fs, path, bak_file) ==
    LET name == file_name(path)
    IN  UNION { IF ~c.ok THEN {Done(c.fs, Ev("copy", name), {})}
                ELSE { IF r.ok THEN Done(r.fs, NoErr, {}) ELSE Done(r.fs, NoErr, {Ev("remove", name)})
                       : r \in fs_remove_file(c.fs, path) }
                : c \in fs_copy(fs, fs[path], bak_file) }

\* fs::copy(&path, &bak_file)?; fs::remove_file(&path)?;
copy_then_remove(fs, path, bak_file) ==
    LET name == file_name(path)
    IN  UNION { IF ~c.ok THEN {Done(c.fs, Ev("copy", name), {})}
                ELSE { IF r.ok THEN Done(r.fs, NoErr, {}) ELSE Done(r.fs, Ev("remove", name), {})
                       : r \in fs_remove_file(c.fs, path) }
                : c \in fs_copy(fs, fs[path], bak_file) }

\* if !dir.exists() { fs::create_dir(&dir)?; } and then the copy and the removal
move_to_year(fs, path, dir) ==
    LET name == file_name(path)
        bak_file == join(dir, name)
    IN  IF exists(fs, dir) THEN copy_then_remove(fs, path, bak_file)
        ELSE UNION { IF ~d.ok THEN {Done(d.fs, Ev("mkdir", name), {})}
                     ELSE copy_then_remove(d.fs, path, bak_file)
                     : d \in fs_create_dir(fs, dir) }

\* The body of the loop of archive_images for a file whose metadata md was read.
archive_file(fs, path, md) ==
    LET filetime == effective_time(md)
        filedate == date(filetime)
    IN  IF filetime = NoTime THEN {Done(fs, NoErr, {Ev("notime", file_name(path))})}
        ELSE IF is_old(filedate, timeline)
             THEN move_to_year(fs, path, join(target, format_year(filedate)))
             ELSE {Done(fs, NoErr, {})}

\* The body of the loop of archive_images for the entry at path: the outcomes.
\* path.is_file() is false for a directory and when the stat call fails; a failure
\* of entry.metadata() skips the file.
archive_entry(fs, path) ==
    IF ~is_file(fs, path) THEN {Done(fs, NoErr, {})}
    ELSE {Done(fs, NoErr, {Ev("stat", file_name(path))}),
          Done(fs, NoErr, {Ev("metadata", file_name(path))})}
         \cup archive_file(fs, path, metadata(fs[path]))

\* ----------------------------------------------------------------- actions

\* what lives only as long as the process
locals == <<archive, srcTodo, count, tgtTodo, timeline>>

\* main's process::exit: the process ends with code 1 when run returned e, else
\* with code 0, and its locals are gone
ExitWith(e, failures) ==
    /\ pc' = "idle"
    /\ err' = e
    /\ exitCode' = IF e = NoErr THEN 0 ELSE 1
    /\ log' = IF e = NoErr THEN failures ELSE failures \cup {e}
    /\ archive' = FALSE /\ srcTodo' = {} /\ count' = 0 /\ tgtTodo' = {} /\ timeline' = 0

Exit(e) == ExitWith(e, log)

Init ==
    /\ src \in SrcDirs
    /\ plat \in Platforms
    /\ now = 0 /\ ticks = 0 /\ runs = 0
    /\ pc = "idle" /\ archive = FALSE
    /\ srcTodo = {} /\ count = 0 /\ tgtTodo = {} /\ timeline = 0
    /\ tfs = (target :> Dir) /\ tfs0 = (target :> Dir)
    /\ log = {} /\ err = NoErr /\ exitCode = NoExit
    /\ prevSave = "none"

\* The clock advances between two runs of the program: by one tick, or by 365
\* days and one tick.
Tick ==
    /\ pc = "idle" /\ ticks < MaxTicks /\ runs < MaxRuns
    /\ \E d \in {1, ArchiveDays * TicksPerDay + 1} : now' = now + d
    /\ ticks' = ticks + 1
    /\ UNCHANGED <<src, plat, runs, pc, locals, tfs, tfs0, log, err, exitCode, prevSave>>

\* main, Config::new, run and the head of save_images: get_spotlight_dir()? and
\* spotlight_dir.read_dir()?
Run ==
    /\ pc = "idle" /\ runs < MaxRuns
    /\ runs' = runs + 1
    /\ tfs0' = tfs
    /\ \E a \in BOOLEAN, found \in {"ok", "discover", "src.list"} :
        IF found = "ok"
        THEN /\ pc' = "save"
             /\ archive' = a
             /\ srcTodo' = DOMAIN src
             /\ log' = {}
             /\ err' = NoErr
             /\ UNCHANGED <<count, tgtTodo, timeline, exitCode, prevSave>>
        ELSE /\ ExitWith(Ev(found, ""), {})
             /\ prevSave' = "err"
    /\ UNCHANGED <<src, plat, now, ticks, tfs>>

\* One turn of the loop of save_images.
SaveStep ==
    /\ pc = "save" /\ srcTodo # {}
    /\ \/ \* let entry = entry?;
          /\ Exit(Ev("src.entry", ""))
          /\ prevSave' = "err"
          /\ UNCHANGED tfs
       \/ \E name \in srcTodo :
          /\ srcTodo' = srcTodo \ {name}
          /\ IF src[name].kind # "file"
             THEN UNCHANGED <<count, tfs, log>>
             ELSE \E o \in save_image(tfs, name) :
                    /\ count' = counted(count, o.saved)
                    /\ tfs' = o.fs
                    /\ log' = log \cup o.io
          /\ UNCHANGED <<pc, archive, tgtTodo, timeline, err, exitCode, prevSave>>
    /\ UNCHANGED <<src, plat, now, ticks, runs, tfs0>>

CopyFailed == \E e \in log : e.op = "save.copy"

\* save_images returns Ok(()); run goes on to archive_images when config.archive
\* is set (timeline and config.target.read_dir()?), else the process ends.
SaveReturn ==
    /\ pc = "save" /\ srcTodo = {}
    /\ IF archive
       THEN /\ prevSave' = "none"
            /\ tfs0' = tfs
            /\ \/ /\ pc' = "archive"
                  /\ timeline' = date(now) - ArchiveDays
                  /\ tgtTodo' = read_dir(tfs, target)
                  /\ UNCHANGED <<archive, srcTodo, count, log, err, exitCode>>
               \/ Exit(Ev("tgt.list", ""))
       ELSE /\ prevSave' = IF CopyFailed THEN "ok" ELSE "clean"
            /\ Exit(NoErr)
            /\ UNCHANGED tfs0
    /\ UNCHANGED <<src, plat, now, ticks, runs, tfs>>

\* One turn of the loop of archive_images.
ArchiveStep ==
    /\ pc = "archive" /\ tgtTodo # {}
    /\ \/ \* let entry = entry?;
          /\ Exit(Ev("tgt.entry", ""))
          /\ UNCHANGED tfs
       \/ \E path \in tgtTodo : \E o \in archive_entry(tfs, path) :
          /\ tfs' = o.fs
          /\ IF o.err = NoErr
             THEN /\ tgtTodo' = tgtTodo \ {path}
                  /\ log' = log \cup o.io
                  /\ UNCHANGED <<pc, archive, srcTodo, count, timeline, err, exitCode>>
             ELSE ExitWith(o.err, log \cup o.io)
    /\ UNCHANGED <<src, plat, now, ticks, runs, tfs0, prevSave>>

\* archive_images returns Ok(()) and the process ends.
ArchiveReturn ==
    /\ pc = "archive" /\ tgtTodo = {}
    /\ Exit(NoErr)
    /\ UNCHANGED <<src, plat, now, ticks, runs, tfs, tfs0, prevSave>>

Next == Tick \/ Run \/ SaveStep \/ SaveReturn \/ ArchiveStep \/ ArchiveReturn

Spec == Init /\ [][Next]_vars

\* ------------------------------------------------ the vocabulary of the claims

\* a regular file of the source directory that decodes as an image of a detected
\* format with width >= height, width >= 800 and height >= 600
Qualifies(name) ==
    LET f == src[name]
    IN  /\ f.kind = "file" /\ f.readable /\ f.decodes
        /\ f.bytes[1] \in {255, 137}
        /\ f.width >= f.height /\ f.width >= 800 /\ f.height >= 600

\* a regular file of the source directory that is not such an image
Fails(name) == src[name].kind = "file" /\ ~Qualifies(name)

\* target/name.ext, ext the extension of the format of the file's content
CopyPath(name) == <<name \o (IF src[name].bytes[1] = 255 THEN ".jpg" ELSE ".png")>>

\* every target/name.*
CopyPaths(name) == {<<name \o x>> : x \in {".jpg", ".jpeg", ".png"}}

\* the path holds a file with these bytes
Holds(fs, path, bytes) == path \in DOMAIN fs /\ fs[path].kind = "file" /\ fs[path].bytes = bytes

\* the two trees agree at the path
Same(fs1, fs2, path) ==
    (path \in DOMAIN fs1) = (path \in DOMAIN fs2) /\ (path \in DOMAIN fs1 => fs1[path] = fs2[path])

Scanned(name) == pc = "save" /\ name \notin srcTodo

\* the loop of save_images has run to its end: save_images returns Ok
SaveOk == pc = "save" /\ srcTodo = {}

\* the loop of archive_images has run to its end: archive_images returns Ok
ArchiveOk == pc = "archive" /\ tgtTodo = {}

\* the regular files directly under the target directory
RootFiles(fs) == {p \in DOMAIN fs : Len(p) = 1 /\ fs[p].kind = "file"}

\* what lies inside the subdirectories of the target directory
Inside(fs) == {p \in DOMAIN fs : Len(p) >= 2}

\* the date of a file: of its last modification, else of its creation
HasDate(file) == plat.hasModified \/ plat.hasCreated

DateOf(file) == (IF plat.hasModified THEN file.modified ELSE file.created) \div TicksPerDay

\* target/<4-digit year of the file's date>
YearDir(file) == <<ToString(1970 + (DateOf(file) \div 365))>>

YearPath(file, path) == YearDir(file) \o path

\* today minus 365 days
Cutoff == (now \div TicksPerDay) - 365

Old(file) == HasDate(file) /\ DateOf(file) < Cutoff

\* archive_images could not read the file's type or its metadata
Unread(path) == \E e \in log : e.op \in {"stat", "metadata"} /\ e.name = path[1]

\* ---------------------------------------------------------------- the claims

\* C1 as stated: once save_images has returned, every qualifying source file
\* has a copy target/name.ext with the bytes of the source file.
C1_AsStated ==
    SaveOk => \A n \in SrcNames : Qualifies(n) => Holds(tfs, CopyPath(n), src[n].bytes)

\* C1, amended: once save_images has returned Ok, for every qualifying source
\* file: an entry target/name.ext that was there when the stage started is left
\* as it was; else target/name.ext holds the bytes of the source file, unless the
\* copy failed, and then there is no target/name.ext or an incomplete one.
C1_SavePostcondition ==
    SaveOk => \A n \in SrcNames : Qualifies(n) =>
        IF CopyPath(n) \in DOMAIN tfs0 THEN Same(tfs, tfs0, CopyPath(n))
        ELSE IF Ev("save.copy", n) \in log
             THEN ~Holds(tfs, CopyPath(n), src[n].bytes)
                  /\ \A q \in CopyPaths(n) \ {CopyPath(n)} : q \notin DOMAIN tfs
             ELSE Holds(tfs, CopyPath(n), src[n].bytes)
                  /\ \A q \in CopyPaths(n) \ {CopyPath(n)} : q \notin DOMAIN tfs

C1_Witness ==
    /\ SaveOk /\ log = {}
    /\ \A n \in SrcNames : Qualifies(n) /\ CopyPath(n) \notin DOMAIN tfs0
                           /\ Holds(tfs, CopyPath(n), src[n].bytes)

\* C2: every file that was in the target root when the stage started is still
\* there, unchanged, or its bytes are in its year subdirectory; this holds in
\* every state, the one left by an archive stage that aborted included.
C2_NoLoss ==
    \A p \in RootFiles(tfs0) :
        \/ Same(tfs, tfs0, p)
        \/ /\ Old(tfs0[p])
           /\ Holds(tfs, YearPath(tfs0[p], p), tfs0[p].bytes)

\* an archive stage moved one file and aborted on the copy of the next, which
\* is still in the target root
C2_Witness ==
    /\ pc = "idle" /\ err.op = "copy"
    /\ Same(tfs, tfs0, <<err.name>>)
    /\ \E p \in RootFiles(tfs0) : p \notin DOMAIN tfs

C4_NoOutputForFailing ==
    /\ pc = "save" =>
         \A n \in SrcNames : Fails(n) => \A q \in CopyPaths(n) : Same(tfs, tfs0, q)
    /\ err.op \notin {"open", "sniff", "decode", "filter"}

\* a file was dropped by the filter and the stage went on to save another
C4_Witness ==
    /\ SaveOk /\ count = 1
    /\ \E n \in SrcNames : Fails(n) /\ Ev("filter", n) \in log

\* C5: in an archive stage a file whose date is not strictly earlier than the
\* cutoff stays at its path with its content, and nothing of its name is
\* written in any year subdirectory.
C5_RecentUntouched ==
    pc = "archive" =>
        \A p \in RootFiles(tfs0) : (HasDate(tfs0[p]) /\ DateOf(tfs0[p]) >= Cutoff) =>
            /\ Same(tfs, tfs0, p)
            /\ \A q \in Inside(tfs) \cup Inside(tfs0) :
                   q[Len(q)] = p[1] => Same(tfs, tfs0, q)

\* the stage is over and a file dated exactly on the cutoff is where it was
C5_Witness ==
    /\ ArchiveOk /\ log = {}
    /\ \E p \in RootFiles(tfs0) :
         HasDate(tfs0[p]) /\ DateOf(tfs0[p]) = Cutoff /\ Same(tfs, tfs0, p)

\* the file that was at p is in its year subdirectory and gone from the root
Moved(p) ==
    /\ p \notin DOMAIN tfs
    /\ YearDir(tfs0[p]) \in DOMAIN tfs /\ tfs[YearDir(tfs0[p])].kind = "dir"
    /\ Holds(tfs, YearPath(tfs0[p], p), tfs0[p].bytes)

Fatal(e) == pc = "idle" /\ err = e /\ exitCode = 1

\* C7 as stated: every I/O error of the archive stage, the read of an entry's
\* metadata included, is returned at once and ends the process with code 1.
C7_AsStated ==
    \A e \in log :
        e.op \in {"tgt.list", "tgt.entry", "metadata", "mkdir", "copy", "remove"} => Fatal(e)

\* C7, amended: a failure to list the target directory, to read an entry, to
\* create the year subdirectory, to copy or to delete is returned at once and
\* ends the process with code 1; no step of the stage follows it.
C7_FailFast ==
    \A e \in log : e.op \in {"tgt.list", "tgt.entry", "mkdir", "copy", "remove"} => Fatal(e)

\* the removal of an original failed after another file had been moved
C7_Witness ==
    /\ pc = "idle" /\ exitCode = 1 /\ err.op = "remove"
    /\ \E p \in RootFiles(tfs0) : p \notin DOMAIN tfs

\* the copies save_images has made in this run
SavedNow ==
    {n \in SrcNames : /\ src[n].kind = "file"
                      /\ CopyPath(n) \notin DOMAIN tfs0
                      /\ Holds(tfs, CopyPath(n), src[n].bytes)}

\* C8: a copy that fails does not end the stage, and the count is the number
\* of files whose copy succeeded in this run.
C8_CountAndContinue ==
    /\ pc = "save" => count = Cardinality(SavedNow)
    /\ err.op # "save.copy"
    /\ \A e \in log : e.op = "save.copy" =>
           (pc = "save" => e.name \notin srcTodo /\ e.name \notin SavedNow)

\* a copy failed, the stage went on and saved the other file
C8_Witness ==
    /\ SaveOk /\ count = 1
    /\ \E e \in log : e.op = "save.copy"

\* C9: archive_images scans entries directly under the target directory only;
\* what lies in a year subdirectory is never removed, and is written only as
\* the destination of an old root file of the same name; no directory lies
\* inside a year subdirectory.
C9_NonRecursive ==
    /\ \A p \in tgtTodo : Len(p) = 1
    /\ \A q \in DOMAIN tfs : tfs[q].kind = "dir" => Len(q) <= 1
    /\ \A q \in DOMAIN tfs : Len(q) <= 2
    /\ \A q \in Inside(tfs0) :
         /\ q \in DOMAIN tfs
         /\ Same(tfs, tfs0, q)
            \/ \E p \in RootFiles(tfs0) : Old(tfs0[p]) /\ q = YearPath(tfs0[p], p)

\* an archive stage is over and an old file archived by an earlier run is still
\* in its year subdirectory, as it was
C9_Witness ==
    /\ ArchiveOk
    /\ \E q \in Inside(tfs0) : Old(tfs0[q]) /\ Same(tfs, tfs0, q)

\* an archived copy of the name is in some year subdirectory
Archived(fs, p) == \E q \in Inside(fs) : q[Len(q)] = p[1]

\* C10: the save stage copies a qualifying file whose copy is absent from the
\* target root even when an archived copy lies in a year subdirectory, and the
\* archive stage writes an old root file over the file already at its year path.
C10_SaveAgainOverwrite ==
    /\ \A n \in SrcNames :
         (Scanned(n) /\ Qualifies(n) /\ CopyPath(n) \notin DOMAIN tfs0 /\ Archived(tfs0, CopyPath(n)))
            => (Holds(tfs, CopyPath(n), src[n].bytes) \/ Ev("save.copy", n) \in log)
    /\ pc = "archive" =>
         \A p \in RootFiles(tfs0) :
            (/\ p \notin tgtTodo /\ Old(tfs0[p]) /\ ~Unread(p)
             /\ YearPath(tfs0[p], p) \in DOMAIN tfs0)
            => /\ p \notin DOMAIN tfs
               /\ Holds(tfs, YearPath(tfs0[p], p), tfs0[p].bytes)
               /\ tfs[YearPath(tfs0[p], p)].modified =
                    (IF plat.keepsMtime THEN tfs0[p].modified ELSE now)

\* this run saved both files again although both were archived, and its archive
\* stage has written one of them over the copy in the year subdirectory
C10_Witness ==
    /\ pc = "archive" /\ count = 2
    /\ \E p \in RootFiles(tfs0) :
         /\ YearPath(tfs0[p], p) \in DOMAIN tfs0
         /\ p \notin DOMAIN tfs
         /\ Holds(tfs, YearPath(tfs0[p], p), tfs0[p].bytes)

====
